---- MODULE Spec2Model ----
(***************************************************************************)
(* Model of client/filesystem.py: SharedSourceDirectory.prepare() run by   *)
(* several OS processes against one non-isolated overlay root, with the    *)
(* advisory lock of acquire_lock, the manifest .pyre.source_directories,   *)
(* _clear, _merge and _merge_source_directory (Spec).                      *)
(* Further specifications over the same state: ManifestSpec (damaged       *)
(* manifests), DotPyreSpec (source files with a .pyre prefix), LockSpec    *)
(* (acquire_lock alone, both modes), CleanupSpec (cleanup(), isolation),   *)
(* UseSpec (callers reading the view), FaultSpec (failing link calls).     *)
(***************************************************************************)
EXTENDS Integers, Sequences, FiniteSets, TLC

\* ---------------------------------------------------------------- bounds
NumProcs == 2
MaxCalls == 3

Procs == 1..NumProcs
NoProc == 0

\* ------------------------------------------------------- source trees
\* The source directories a caller may pass to SharedSourceDirectory().
SourceDirs == {1, 2}

\* Relative paths that `find` may print below a source directory, in the
\* order it prints them.
FindOrder == <<"pkg/__init__.py", "pkg/mod.py", "main.py", ".pyre_stubs.py">>
RelPaths == {FindOrder[i] : i \in 1..Len(FindOrder)}

\* What sits at a relative path of a source directory:
\*   "none"     nothing `find` prints
\*   "file"     a regular file of non-zero size
\*   "empty"    a regular file of size zero
\*   "symfile"  a symbolic link to a non-empty regular file outside the tree
\*   "symdir"   a symbolic link to a directory
Kinds == {"none", "file", "empty", "symfile", "symdir"}

Layout(present, init, mod, main) ==
    [present |-> present,
     files |-> [r \in RelPaths |->
                  IF r = "pkg/__init__.py" THEN init
                  ELSE IF r = "pkg/mod.py" THEN mod
                  ELSE IF r = "main.py" THEN main ELSE "none"]]

\* The directory contents the model draws each source directory from.
Layouts ==
    { Layout(TRUE, "empty", "file", "none"),
      Layout(TRUE, "file", "none", "empty"),
      Layout(TRUE, "empty", "symdir", "symfile"),
      Layout(TRUE, "none", "none", "none"),
      Layout(FALSE, "none", "none", "none") }

\* ------------------------------------------------------------ overlay
\* A link of the overlay: the source directory whose file it resolves to
\* and whether that real path lies inside the source directory.
NoLink == [src |-> 0, real |-> "none"]

\* The top-level entry of the overlay root a relative path lives under.
TopOf(r) == IF r \in {"main.py", ".pyre_stubs.py"} THEN r ELSE "pkg"

\* path.startswith(".pyre"), for the entries of the root.
StartsWithDotPyre(e) == e = ".pyre_stubs.py"

NoManifest == [state |-> "absent", dirs |-> {}]
Truncated == [state |-> "truncated", dirs |-> {}]
\* A manifest json.load decodes to a value set() cannot iterate (a number).
NonArray == [state |-> "nonarray", dirs |-> {}]

Tracked(S) == [state |-> "valid", dirs |-> S]

VARIABLES
    tree,         \* source directory -> its layout (never changes)
    rootExists,   \* .pyre/shared_source_directory exists
    overlay,      \* relative path -> link under the root, or NoLink
    manifest,     \* .pyre.source_directories
    lockHolder,   \* process holding the lockf lock on .pyre.lock, or NoProc
    pc,           \* where each process is inside prepare()
    req,          \* self._source_directories of the running call
    todo,         \* entries os.listdir(root) returned, still to remove
    remaining,    \* source directories _merge has still to visit
    all_paths,    \* the mapping _merge accumulates, in insertion order
    idx,          \* position of the link loop in all_paths
    outcome,      \* how the running prepare() is about to end
    calls,        \* prepare() calls started so far
    interrupted,  \* a rebuild was killed and no rebuild has completed since
    won,          \* per waiting process: the rebuild the previous lock holder completed
    lastDone,     \* the call that returned last, with nothing run since
    tracked,      \* the local `tracked` of prepare(): what it read from the manifest
    isolate,      \* self._isolate of the callers (the root is per process when set)
    lmode,        \* acquire_lock: the `blocking` argument of the caller
    body,         \* acquire_lock: how the caller's with-block ends
    yields        \* acquire_lock: times the generator handed control to the block

\* What prepare() on the shared root never touches.
ext == <<isolate, lmode, body, yields>>

vars == <<tree, rootExists, overlay, manifest, lockHolder, pc, req, todo,
          remaining, all_paths, idx, outcome, calls, interrupted, won,
          lastDone, tracked, ext>>

NoneWon == [set |-> FALSE, dirs |-> {}]
NoneDone == [proc |-> NoProc, dirs |-> {}]

\* What the processes hold before any call, and the history kept of them.
InitLocals ==
    /\ lockHolder = NoProc
    /\ req = [p \in Procs |-> {}]
    /\ todo = [p \in Procs |-> {}]
    /\ remaining = [p \in Procs |-> {}]
    /\ all_paths = [p \in Procs |-> <<>>]
    /\ idx = [p \in Procs |-> 1]
    /\ outcome = [p \in Procs |-> "none"]
    /\ calls = 0
    /\ interrupted = FALSE
    /\ won = [p \in Procs |-> NoneWon]
    /\ lastDone = NoneDone
    /\ tracked = [p \in Procs |-> NoManifest]
    /\ lmode = [p \in Procs |-> "blocking"]
    /\ body = [p \in Procs |-> "return"]
    /\ yields = [p \in Procs |-> 0]

\* The processes before any call.
InitProcs ==
    /\ pc = [p \in Procs |-> "idle"]
    /\ InitLocals

Init ==
    /\ tree \in [SourceDirs -> Layouts]
    /\ rootExists = FALSE
    /\ overlay = [r \in RelPaths |-> NoLink]
    /\ manifest = NoManifest
    /\ isolate = FALSE
    /\ InitProcs

\* ------------------------------------------------- pure helpers of _merge
\* _find_python_paths: the relative paths `find` prints for a directory.
FindPythonPaths(d) ==
    SelectSeq(FindOrder, LAMBDA r : tree[d].files[r] # "none")

\* Mutant: the isfile test is dropped, every candidate counts as a file.
IsFileAlways(k) == k \in Kinds

\* os.path.isfile(os.path.realpath(path))
IsFile(k) == k \in {"file", "empty", "symfile"}

\* is_empty(absolute)
IsEmpty(k) == k = "empty"

\* relative.endswith("__init__.py")
EndsWithInit(r) == r = "pkg/__init__.py"

\* os.path.realpath(path)
RealPath(d, r) ==
    [src |-> d,
     real |-> IF tree[d].files[r] = "symfile" THEN "outside" ELSE "inside"]

\* Mutant: the empty-initializer rule is dropped.
AcceptsEmptyInit(d, r) == IsFile(tree[d].files[r])

\* The two filters of _merge_source_directory a candidate must pass.
Accepts(d, r) ==
    /\ IsFile(tree[d].files[r])
    /\ ~(EndsWithInit(r) /\ IsEmpty(tree[d].files[r]))

Keys(paths) == {paths[i].rel : i \in 1..Len(paths)}

\* The loop of _merge_source_directory over the paths found, from index i.
RECURSIVE MergedPaths(_, _, _, _)
MergedPaths(d, found, paths, i) ==
    IF i > Len(found) THEN paths
    ELSE LET r == found[i] IN
         MergedPaths(d, found,
                     IF r \notin Keys(paths) /\ Accepts(d, r)
                     THEN Append(paths, [rel |-> r, abs |-> RealPath(d, r)])
                     ELSE paths,
                     i + 1)

\* Mutant: the cache counts as current only for a strictly larger set.
IsUpToDateStrict(requested, known) ==
    requested \subseteq known /\ requested # known

\* Mutant: the cache counts as current only for the very same set.
IsUpToDateEqual(requested, known) == requested = known

\* self._source_directories.issubset(tracked)
IsUpToDate(requested, known) == requested \subseteq known

\* Mutant: the lock is not exclusive.
CanLockShared(p) == lockHolder \in Procs \cup {NoProc}

\* fcntl.lockf(LOCK_EX) returns for p only when no other process holds it.
CanLock(p) == lockHolder = NoProc

\* Mutant: the set read from the manifest is written back.
ManifestKeepsTracked(p) == manifest.dirs

\* Mutant: the requested set is added to the set read from the manifest.
ManifestUnion(p) == req[p] \cup tracked[p].dirs

\* What json.dump writes to the manifest.
ManifestToWrite(p) == req[p]

\* The entries os.listdir(root) returns, the lock and the manifest aside.
ListDir == {TopOf(r) : r \in {x \in RelPaths : overlay[x] # NoLink}}

\* Mutant: the removal does nothing.
RemoveNothing(e) == overlay

\* remove_if_exists(root/e): the entry and everything below it is gone.
RemoveIfExists(e) ==
    [r \in RelPaths |-> IF TopOf(r) = e THEN NoLink ELSE overlay[r]]

\* Mutant: the link loop is left after its first round.
AfterLinkEarly(p, i) == "write"

\* The pc the link loop continues at after entry number i.
AfterLink(p, i) == IF i >= Len(all_paths[p]) THEN "write" ELSE "link"

\* ----------------------------------------------------- history updates
Touch(p) == IF lastDone.proc = p THEN lastDone ELSE NoneDone

InRebuild(p) == pc[p] \in {"clearing", "merge", "link", "write", "dump"}

Waiting(q) == pc[q] = "lock"

\* --------------------------------------------------------------- actions
\* prepare() is called with the requested set R and creates the root:
\* os.makedirs(root), OSError swallowed (lines 35-43).
Prepare(p, R) ==
    /\ pc[p] = "idle"
    /\ calls < MaxCalls
    /\ calls' = calls + 1
    /\ rootExists' = TRUE
    /\ pc' = [pc EXCEPT ![p] = "lock"]
    /\ req' = [req EXCEPT ![p] = R]
    /\ lastDone' = IF lastDone.proc = p /\ lastDone.dirs = R
                   THEN lastDone ELSE NoneDone
    /\ UNCHANGED <<ext, tracked, tree, overlay, manifest, lockHolder, todo, remaining,
                   all_paths, idx, outcome, interrupted, won>>

\* acquire_lock(lock, blocking=True) up to its yield (lines 194-202, 205-206).
AcquireLock(p) ==
    /\ pc[p] = "lock"
    /\ IF rootExists
       THEN /\ CanLock(p)
            /\ lockHolder' = p
       ELSE UNCHANGED lockHolder
    /\ pc' = [pc EXCEPT ![p] = "check"]
    /\ won' = [q \in Procs |-> IF q = p THEN won[q] ELSE NoneWon]
    /\ lastDone' = Touch(p)
    /\ UNCHANGED <<ext, tracked, tree, rootExists, overlay, manifest, req, todo, remaining,
                   all_paths, idx, outcome, calls, interrupted>>

\* The manifest is read and compared (lines 47-56). A manifest that decodes
\* to something set() cannot take raises TypeError, which is not caught.
CheckManifest(p) ==
    /\ pc[p] = "check"
    /\ tracked' = [tracked EXCEPT ![p] = manifest]
    /\ IF manifest.state = "nonarray"
       THEN /\ pc' = [pc EXCEPT ![p] = "unlock"]
            /\ outcome' = [outcome EXCEPT ![p] = "TypeError"]
       ELSE IF manifest.state = "valid" /\ IsUpToDate(req[p], manifest.dirs)
       THEN /\ pc' = [pc EXCEPT ![p] = "unlock"]
            /\ outcome' = [outcome EXCEPT ![p] = "uptodate"]
       ELSE /\ pc' = [pc EXCEPT ![p] = "clear"]
            /\ UNCHANGED outcome
    /\ lastDone' = Touch(p)
    /\ UNCHANGED <<ext, tree, rootExists, overlay, manifest, lockHolder, req,
                   todo, remaining, all_paths, idx, calls, interrupted, won>>

\* _clear: os.listdir(root) (lines 76-78).
ClearList(p) ==
    /\ pc[p] = "clear"
    /\ todo' = [todo EXCEPT ![p] = ListDir]
    /\ pc' = [pc EXCEPT ![p] = "clearing"]
    /\ lastDone' = Touch(p)
    /\ UNCHANGED <<ext, tracked, tree, rootExists, overlay, manifest, lockHolder, req,
                   remaining, all_paths, idx, outcome, calls,
                   interrupted, won>>

\* _clear: one iteration of the loop (lines 78-83).
ClearEntry(p, e) ==
    /\ pc[p] = "clearing"
    /\ e \in todo[p]
    /\ overlay' = IF StartsWithDotPyre(e) THEN overlay ELSE RemoveIfExists(e)
    /\ todo' = [todo EXCEPT ![p] = @ \ {e}]
    /\ lastDone' = Touch(p)
    /\ UNCHANGED <<ext, tracked, tree, rootExists, manifest, lockHolder, pc, req, remaining,
                   all_paths, idx, outcome, calls, interrupted, won>>

\* _clear returns and _merge starts (lines 60-61, 85-89).
ClearDone(p) ==
    /\ pc[p] = "clearing"
    /\ todo[p] = {}
    /\ pc' = [pc EXCEPT ![p] = "merge"]
    /\ remaining' = [remaining EXCEPT ![p] = req[p]]
    /\ all_paths' = [all_paths EXCEPT ![p] = <<>>]
    /\ lastDone' = Touch(p)
    /\ UNCHANGED <<ext, tracked, tree, rootExists, overlay, manifest, lockHolder, req, todo,
                   idx, outcome, calls, interrupted, won>>

\* _merge_source_directory(d, all_paths) for the next directory of the set
\* (lines 89-90, 108-129, 132-170). `find` fails on a missing directory
\* (EnvironmentException); an empty listing makes os.path.relpath("") raise
\* ValueError before the `if not path` test.
MergeSourceDirectory(p, d) ==
    /\ pc[p] = "merge"
    /\ d \in remaining[p]
    /\ IF ~tree[d].present
       THEN /\ pc' = [pc EXCEPT ![p] = "unlock"]
            /\ outcome' = [outcome EXCEPT ![p] = "EnvironmentException"]
            /\ UNCHANGED <<remaining, all_paths>>
       ELSE IF Len(FindPythonPaths(d)) = 0
       THEN /\ pc' = [pc EXCEPT ![p] = "unlock"]
            /\ outcome' = [outcome EXCEPT ![p] = "ValueError"]
            /\ UNCHANGED <<remaining, all_paths>>
       ELSE /\ all_paths' = [all_paths EXCEPT ![p] =
                               MergedPaths(d, FindPythonPaths(d), @, 1)]
            /\ remaining' = [remaining EXCEPT ![p] = @ \ {d}]
            /\ UNCHANGED <<pc, outcome>>
    /\ lastDone' = Touch(p)
    /\ UNCHANGED <<ext, tracked, tree, rootExists, overlay, manifest, lockHolder, req, todo,
                   idx, calls, interrupted, won>>

\* The loop over the source directories ends; the link loop starts (line 91).
MergeDone(p) ==
    /\ pc[p] = "merge"
    /\ remaining[p] = {}
    /\ pc' = [pc EXCEPT ![p] = AfterLink(p, 0)]
    /\ idx' = [idx EXCEPT ![p] = 1]
    /\ lastDone' = Touch(p)
    /\ UNCHANGED <<ext, tracked, tree, rootExists, overlay, manifest, lockHolder, req, todo,
                   remaining, all_paths, outcome, calls, interrupted,
                   won>>

\* One iteration of the link loop: makedirs, symlink, and on EEXIST unlink
\* and symlink again (lines 91-105).
Link(p) ==
    /\ pc[p] = "link"
    /\ overlay' = [overlay EXCEPT ![all_paths[p][idx[p]].rel] =
                                    all_paths[p][idx[p]].abs]
    /\ idx' = [idx EXCEPT ![p] = @ + 1]
    /\ pc' = [pc EXCEPT ![p] = AfterLink(p, idx[p])]
    /\ lastDone' = Touch(p)
    /\ UNCHANGED <<ext, tracked, tree, rootExists, manifest, lockHolder, req, todo,
                   remaining, all_paths, outcome, calls, interrupted,
                   won>>

\* open(manifest, "w") truncates the file (line 64).
WriteOpen(p) ==
    /\ pc[p] = "write"
    /\ manifest' = Truncated
    /\ pc' = [pc EXCEPT ![p] = "dump"]
    /\ lastDone' = Touch(p)
    /\ UNCHANGED <<ext, tracked, tree, rootExists, overlay, lockHolder, req, todo, remaining,
                   all_paths, idx, outcome, calls, interrupted, won>>

\* json.dump(list(self._source_directories), file) and close (lines 64-67).
WriteDump(p) ==
    /\ pc[p] = "dump"
    /\ manifest' = Tracked(ManifestToWrite(p))
    /\ pc' = [pc EXCEPT ![p] = "unlock"]
    /\ outcome' = [outcome EXCEPT ![p] = "rebuilt"]
    /\ interrupted' = FALSE
    /\ won' = [q \in Procs |->
                 IF q # p /\ Waiting(q)
                 THEN [set |-> TRUE, dirs |-> req[p]] ELSE won[q]]
    /\ lastDone' = Touch(p)
    /\ UNCHANGED <<ext, tracked, tree, rootExists, overlay, lockHolder, req, todo, remaining,
                   all_paths, idx, calls>>

\* Mutant: only the lockf(LOCK_UN) after a completed block gives the lock up.
LockAfterNormalExit(p) ==
    IF lockHolder = p /\ outcome[p] = "rebuilt" THEN NoProc ELSE lockHolder

\* The lock once the with-block is left: lockf(LOCK_UN) on a return, the
\* close of the lock file by `with open` on an error (lines 195-203).
LockAfterExit(p) == IF lockHolder = p THEN NoProc ELSE lockHolder

\* The with-block of acquire_lock is left: the lock is released and
\* prepare() returns or raises (lines 195-203).
Release(p) ==
    /\ pc[p] = "unlock"
    /\ lockHolder' = LockAfterExit(p)
    /\ tracked' = [tracked EXCEPT ![p] = NoManifest]
    /\ pc' = [pc EXCEPT ![p] = "idle"]
    /\ req' = [req EXCEPT ![p] = {}]
    /\ todo' = [todo EXCEPT ![p] = {}]
    /\ remaining' = [remaining EXCEPT ![p] = {}]
    /\ all_paths' = [all_paths EXCEPT ![p] = <<>>]
    /\ idx' = [idx EXCEPT ![p] = 1]
    /\ won' = [won EXCEPT ![p] = NoneWon]
    /\ lastDone' = IF outcome[p] \in {"rebuilt", "uptodate"}
                   THEN [proc |-> p, dirs |-> req[p]] ELSE NoneDone
    /\ outcome' = [outcome EXCEPT ![p] = "none"]
    /\ UNCHANGED <<ext, tree, rootExists, overlay, manifest, calls, interrupted>>

\* The process is killed inside prepare(); the OS drops its lock.
Kill(p) ==
    /\ pc[p] \notin {"idle", "cleaned", "elsewhere"}
    /\ lockHolder' = IF lockHolder = p THEN NoProc ELSE lockHolder
    /\ tracked' = [tracked EXCEPT ![p] = NoManifest]
    /\ interrupted' = (interrupted \/ InRebuild(p))
    /\ pc' = [pc EXCEPT ![p] = "idle"]
    /\ req' = [req EXCEPT ![p] = {}]
    /\ todo' = [todo EXCEPT ![p] = {}]
    /\ remaining' = [remaining EXCEPT ![p] = {}]
    /\ all_paths' = [all_paths EXCEPT ![p] = <<>>]
    /\ idx' = [idx EXCEPT ![p] = 1]
    /\ outcome' = [outcome EXCEPT ![p] = "none"]
    /\ won' = [won EXCEPT ![p] = NoneWon]
    /\ lastDone' = NoneDone
    /\ UNCHANGED <<ext, tree, rootExists, overlay, manifest, calls>>

\* One step of prepare() in process p, up to the release of the lock.
Step(p) ==
    \/ \E R \in SUBSET SourceDirs : Prepare(p, R)
    \/ AcquireLock(p)
    \/ CheckManifest(p)
    \/ ClearDone(p)
    \/ \E d \in SourceDirs : MergeSourceDirectory(p, d)
    \/ MergeDone(p)
    \/ WriteOpen(p)
    \/ WriteDump(p)
    \/ Kill(p)

Next ==
    \E p \in Procs :
        \/ Step(p)
        \/ ClearList(p)
        \/ \E e \in todo[p] : ClearEntry(p, e)
        \/ Link(p)
        \/ Release(p)

Spec == Init /\ [][Next]_vars

TypeOK ==
    /\ lockHolder \in Procs \cup {NoProc}
    /\ manifest.state \in {"absent", "truncated", "nonarray", "valid"}
    /\ \A p \in Procs : req[p] \subseteq SourceDirs

\* ================================================================ claims
\* Vocabulary of the claims, stated on the source trees themselves.

\* p is between lock acquisition and lock release.
InCritical(p) ==
    pc[p] \in {"check", "clear", "clearing", "merge", "link", "write", "dump",
               "unlock"}

\* p is clearing, merging, linking or writing the manifest.
Rebuilding(p) ==
    pc[p] \in {"clear", "clearing", "merge", "link", "write", "dump"}

\* The manifest on disk decodes to a set that contains R.
ManifestCovers(R) == manifest.state = "valid" /\ R \subseteq manifest.dirs

\* prepare() of p is returning normally.
Returning(p, how) == pc[p] = "unlock" /\ outcome[p] = how

\* Directory d holds at r something that resolves to a regular file.
HoldsFile(d, r) == tree[d].files[r] \in {"file", "empty", "symfile"}

\* ... and that is not an empty package initializer.
Mergeable(d, r) ==
    /\ HoldsFile(d, r)
    /\ ~(r = "pkg/__init__.py" /\ tree[d].files[r] = "empty")

\* The real path of what d holds at r.
Resolved(d, r) ==
    [src |-> d,
     real |-> IF tree[d].files[r] = "symfile" THEN "outside" ELSE "inside"]

\* The entry of a mapping for r, NoLink when it has none.
EntryOf(paths, r) ==
    IF \E i \in 1..Len(paths) : paths[i].rel = r
    THEN paths[CHOOSE i \in 1..Len(paths) : paths[i].rel = r].abs
    ELSE NoLink

\* The overlay lacks a link the set R would give it.
HalfPopulated(R) ==
    \E d \in R, r \in RelPaths : Mergeable(d, r) /\ overlay[r] = NoLink

\* ------------------------------------------------------------------ C1
\* C1: at most one process at a time is between lock acquisition and lock
\* release: the critical sections of two processes never overlap, and the
\* process inside holds the lock.
C1_MutualExclusion ==
    \A p \in Procs :
        InCritical(p) =>
            /\ lockHolder = p
            /\ \A q \in Procs \ {p} : ~InCritical(q)

\* A process rebuilds while another one waits for the lock.
C1_Witness ==
    \E p, q \in Procs :
        p # q /\ pc[p] = "link" /\ idx[p] > 1 /\ pc[q] = "lock"

\* ------------------------------------------------------------------ C2
\* C2: after a rebuild was killed between the start of clear and the
\* manifest write, no prepare() returns "up to date" over an overlay that
\* lacks links of the set it requests.
C2_InterruptedRebuildDetected ==
    [][\A q \in Procs :
          (interrupted /\ pc[q] = "check" /\ HalfPopulated(req[q]))
              => pc'[q] # "unlock"]_vars

\* ------------------------------------------------------------------ C3
\* C3: while clear, merge or link creation of a rebuild is in progress the
\* manifest does not list the requested set, and the manifest is opened
\* for writing only when clear is finished and every entry of the mapping
\* has its link.
C3_ManifestWrittenLast ==
    \A p \in Procs :
        /\ Rebuilding(p) => ~ManifestCovers(req[p])
        /\ pc[p] \in {"write", "dump"} =>
              /\ todo[p] = {}
              /\ remaining[p] = {}
              /\ \A i \in 1..Len(all_paths[p]) :
                    overlay[all_paths[p][i].rel] = all_paths[p][i].abs

\* The manifest is being written after a mapping of two or more links.
C3_Witness ==
    \E p \in Procs : pc[p] = "dump" /\ Len(all_paths[p]) >= 2

\* ------------------------------------------------------------------ C4
\* C4 as stated: the process that takes the lock right after a process
\* that completed a rebuild while it waited never rebuilds.
C4_SecondNeverRebuilds ==
    \A q \in Procs : won[q].set => ~Rebuilding(q)

\* C4 amended: it does not rebuild when its requested set is contained in
\* the set the first process rebuilt for.
C4_SecondUpToDateWhenCovered ==
    \A q \in Procs :
        (won[q].set /\ req[q] \subseteq won[q].dirs) =>
            /\ ~Rebuilding(q)
            /\ pc[q] = "unlock" => outcome[q] = "uptodate"

\* The second process returns up to date for a strict, non-empty subset.
C4_Witness ==
    \E q \in Procs :
        /\ won[q].set
        /\ req[q] # {}
        /\ req[q] # won[q].dirs
        /\ req[q] \subseteq won[q].dirs
        /\ Returning(q, "uptodate")

\* ------------------------------------------------------------------ C5
\* C5 as stated: when prepare() returns normally, rebuilt or up to date,
\* every link resolves to a file inside a directory it requested.
C5_LinksInsideRequested ==
    \A p \in Procs :
        (Returning(p, "rebuilt") \/ Returning(p, "uptodate")) =>
            \A r \in RelPaths :
                overlay[r] # NoLink =>
                    overlay[r].src \in req[p] /\ overlay[r].real = "inside"

\* C5 amended: when prepare() returns after a rebuild, every link is the
\* real path of a regular file found in a directory it requested.
C5_LinksResolveRequestedFiles ==
    \A p \in Procs :
        Returning(p, "rebuilt") =>
            \A r \in RelPaths :
                overlay[r] # NoLink =>
                    /\ overlay[r].src \in req[p]
                    /\ HoldsFile(overlay[r].src, r)
                    /\ overlay[r] = Resolved(overlay[r].src, r)

\* A rebuild returns with a link that resolves outside its directory and
\* one that resolves inside.
C5_Witness ==
    \E p \in Procs :
        /\ Returning(p, "rebuilt")
        /\ \E r \in RelPaths : overlay[r].real = "outside"
        /\ \E r \in RelPaths : overlay[r].real = "inside"

\* ------------------------------------------------------------------ C6
\* C6: the staleness check sends prepare() to a rebuild exactly when the
\* manifest does not decode to a set containing the requested set;
\* otherwise prepare() returns and touches neither overlay nor manifest.
C6_RebuildIffNotSubset ==
    [][\A p \in Procs :
          (pc[p] = "check" /\ pc'[p] \in {"clear", "unlock"}) =>
              /\ pc'[p] = "clear" <=> ~ManifestCovers(req[p])
              /\ pc'[p] = "unlock" =>
                    /\ outcome'[p] = "uptodate"
                    /\ overlay' = overlay
                    /\ manifest' = manifest]_vars

\* prepare() returns up to date for a strict subset of the cached set.
C6_Witness ==
    \E p \in Procs :
        /\ Returning(p, "uptodate")
        /\ req[p] # {}
        /\ manifest.dirs # req[p]
        /\ \E r \in RelPaths : overlay[r] # NoLink

\* ------------------------------------------------------------------ C7
\* C7: during a prepare() that follows a normally returned prepare() of
\* the same process with the same set, nothing having run in between,
\* overlay and manifest do not change.
C7_SecondCallWritesNothing ==
    [][\A p \in Procs :
          (lastDone.proc = p /\ pc[p] # "idle") =>
              overlay' = overlay /\ manifest' = manifest]_vars

\* The second call returns over a populated overlay.
C7_Witness ==
    \E p \in Procs :
        /\ lastDone.proc = p
        /\ lastDone.dirs = req[p]
        /\ Returning(p, "uptodate")
        /\ \E r \in RelPaths : overlay[r] # NoLink

\* ------------------------------------------------------------------ C8
\* C8: prepare() ends by returning or by raising EnvironmentException,
\* never with another error.
C8_OnlyEnvironmentFailure ==
    \A p \in Procs :
        pc[p] = "unlock" =>
            outcome[p] \in {"rebuilt", "uptodate", "EnvironmentException"}

C10_LinkPerRegularFile ==
    \A p \in Procs :
        Returning(p, "rebuilt") =>
            \A r \in RelPaths :
                /\ overlay[r] # NoLink <=> \E d \in req[p] : HoldsFile(d, r)
                /\ overlay[r] # NoLink =>
                      \E d \in req[p] :
                          HoldsFile(d, r) /\ overlay[r] = Resolved(d, r)

\* C10 amended: ... at which a requested directory holds a regular file
\* that is not an empty package initializer.
C10_LinkPerMergeableFile ==
    \A p \in Procs :
        Returning(p, "rebuilt") =>
            \A r \in RelPaths :
                /\ overlay[r] # NoLink <=> \E d \in req[p] : Mergeable(d, r)
                /\ overlay[r] # NoLink =>
                      \E d \in req[p] :
                          Mergeable(d, r) /\ overlay[r] = Resolved(d, r)

\* A rebuild over two directories, one of them with a symlinked directory
\* among its candidates, returns with links of both directories.
C10_Witness ==
    \E p \in Procs :
        /\ Returning(p, "rebuilt")
        /\ \A d \in req[p] : \E r \in RelPaths : overlay[r].src = d
        /\ \E r \in RelPaths : \E d \in req[p] :
              tree[d].files[r] = "symdir" /\ overlay[r] # NoLink

\* ------------------------------------------------------------------ C11
\* C11: a process holds the lock only while it is inside the scoped block.
\* Once the block has been left (by completing, by the up-to-date return,
\* by an error raised inside it, or because the process was terminated)
\* the lock is no longer held by that process.
C11_LockReleasedOnExit ==
    \A p \in Procs :
        pc[p] \in {"idle", "lock"} => lockHolder # p

\* A process is inside the block with the lock after the previous holder
\* completed its block and left it, everybody else being outside.
C11_Witness ==
    \E q \in Procs :
        /\ lockHolder = q
        /\ pc[q] = "check"
        /\ won[q].set
        /\ \A p \in Procs \ {q} : pc[p] = "idle"

\* ------------------------------------------------------------------ C13
\* C13: when a rebuilding prepare() returns, the manifest lists exactly
\* the requested set, whatever set the call read from it; and a call that
\* read a set not containing its requested set does not return up to
\* date, so two callers alternating between two incomparable sets
\* rebuild on every call.
C13_ManifestIsRequestedSet ==
    \A p \in Procs :
        /\ Returning(p, "rebuilt") =>
              manifest.state = "valid" /\ manifest.dirs = req[p]
        /\ (tracked[p].state = "valid" /\ ~(req[p] \subseteq tracked[p].dirs)) =>
              ~Returning(p, "uptodate")

\* A rebuild returns after reading a cached set incomparable with its own.
C13_Witness ==
    \E p \in Procs :
        /\ Returning(p, "rebuilt")
        /\ tracked[p].state = "valid"
        /\ ~(tracked[p].dirs \subseteq req[p])
        /\ ~(req[p] \subseteq tracked[p].dirs)

\* ------------------------------------------------------------------ C19
\* The scan of d finds no candidate: d exists and `find` prints nothing.
EmptyScan(d) ==
    tree[d].present /\ \A r \in RelPaths : tree[d].files[r] = "none"

\* C19: a prepare() whose requested directories all exist, one of them
\* with an empty scan, ends by returning, the manifest written.
C19_EmptyScanCompletes ==
    \A p \in Procs :
        ( /\ pc[p] = "unlock"
          /\ \A d \in req[p] : tree[d].present
          /\ \E d \in req[p] : EmptyScan(d) ) =>
            /\ outcome[p] \in {"rebuilt", "uptodate"}
            /\ manifest.state = "valid"

\* ------------------------------------------------------------------ C12
\* prepare() called on a root whose manifest is absent, cut short or holds
\* JSON that is not an array.
InitManifest ==
    /\ tree \in [SourceDirs -> Layouts]
    /\ manifest \in {NoManifest, Truncated, NonArray}
    /\ rootExists = (manifest # NoManifest)
    /\ overlay = [r \in RelPaths |-> NoLink]
    /\ isolate = FALSE
    /\ InitProcs

ManifestSpec == InitManifest /\ [][Next]_vars

\* C12: a prepare() that read anything but a decodable array from the
\* manifest goes on to a full rebuild: past the load it is rebuilding, or
\* it ends as a rebuild ends, never up to date and never with an error of
\* the load.
C12_ManifestLoadNeverFails ==
    \A p \in Procs :
        (tracked[p].state # "valid" /\ pc[p] \notin {"idle", "lock", "check"}) =>
            \/ Rebuilding(p)
            \/ /\ pc[p] = "unlock"
               /\ outcome[p] \in {"rebuilt", "EnvironmentException",
                                   "ValueError"}

\* ============================================================ acquire_lock
\* acquire_lock on its own: callers that take the lock of one path in
\* either mode and whose with-block returns or raises. rootExists stands
\* for the directory of the lock path, which nothing creates here.
Modes == {"blocking", "nonblocking"}

\* How the with-block of a caller ends: by returning or with an error.
Bodies == {"return", "FileNotFoundError", "PermissionError", "ValueError"}

\* What acquire_lock and its callers leave alone.
nolock == <<tree, overlay, manifest, req, todo, remaining, all_paths, idx,
            interrupted, won, lastDone, tracked, isolate>>

InitLock ==
    /\ tree = [d \in SourceDirs |-> Layout(FALSE, "none", "none", "none")]
    /\ rootExists \in BOOLEAN
    /\ overlay = [r \in RelPaths |-> NoLink]
    /\ manifest = NoManifest
    /\ isolate = FALSE
    /\ InitProcs

\* Mutant: LOCK_NB is passed whatever `blocking` says.
NonBlockingAlways(p) == lmode[p] \in Modes

\* `if not blocking`: LOCK_NB is added to the lock command (lines 196-199).
NonBlocking(p) == lmode[p] = "nonblocking"

\* `with acquire_lock(path, blocking): <body>` is reached.
LockCall(p, mode, b) ==
    /\ pc[p] = "idle"
    /\ calls < MaxCalls
    /\ calls' = calls + 1
    /\ pc' = [pc EXCEPT ![p] = "enter"]
    /\ lmode' = [lmode EXCEPT ![p] = mode]
    /\ body' = [body EXCEPT ![p] = b]
    /\ UNCHANGED <<nolock, rootExists, lockHolder, outcome, yields>>

\* open(path, "w+") raises FileNotFoundError: the except clause yields
\* and the block runs without the lock (lines 205-206).
LockOpenFails(p) ==
    /\ pc[p] = "enter"
    /\ ~rootExists
    /\ pc' = [pc EXCEPT ![p] = "block"]
    /\ yields' = [yields EXCEPT ![p] = @ + 1]
    /\ UNCHANGED <<nolock, rootExists, lockHolder, outcome, calls, lmode, body>>

\* lockf returns with the lock and the generator yields (lines 201-202).
LockAcquire(p) ==
    /\ pc[p] = "enter"
    /\ rootExists
    /\ CanLock(p)
    /\ lockHolder' = p
    /\ pc' = [pc EXCEPT ![p] = "block"]
    /\ yields' = [yields EXCEPT ![p] = @ + 1]
    /\ UNCHANGED <<nolock, rootExists, outcome, calls, lmode, body>>

\* lockf with LOCK_NB raises BlockingIOError, an OSError, while another
\* process holds the lock; the generator never yields (line 201).
LockFails(p) ==
    /\ pc[p] = "enter"
    /\ rootExists
    /\ ~CanLock(p)
    /\ NonBlocking(p)
    /\ pc' = [pc EXCEPT ![p] = "left"]
    /\ outcome' = [outcome EXCEPT ![p] = "OSError"]
    /\ UNCHANGED <<nolock, rootExists, lockHolder, calls, lmode, body, yields>>

\* The block ends. A return resumes the generator, which unlocks (line
\* 203). An error is thrown into the generator at its yield: thrown at
\* line 202 it closes the lock file on its way out of `with open`, and a
\* FileNotFoundError is then caught at line 205, where the generator
\* yields a second time, which contextmanager answers with RuntimeError;
\* thrown at line 206 it leaves the generator as it is.
BodyEnds(p) ==
    /\ pc[p] = "block"
    /\ pc' = [pc EXCEPT ![p] = "left"]
    /\ lockHolder' = LockAfterExit(p)
    /\ IF body[p] = "return"
       THEN /\ outcome' = [outcome EXCEPT ![p] = "returned"]
            /\ UNCHANGED yields
       ELSE IF lockHolder = p /\ body[p] = "FileNotFoundError"
       THEN /\ outcome' = [outcome EXCEPT ![p] = "RuntimeError"]
            /\ yields' = [yields EXCEPT ![p] = @ + 1]
       ELSE /\ outcome' = [outcome EXCEPT ![p] = body[p]]
            /\ UNCHANGED yields
    /\ UNCHANGED <<nolock, rootExists, calls, lmode, body>>

\* The caller goes on after the with statement.
LockExit(p) ==
    /\ pc[p] = "left"
    /\ pc' = [pc EXCEPT ![p] = "idle"]
    /\ outcome' = [outcome EXCEPT ![p] = "none"]
    /\ lmode' = [lmode EXCEPT ![p] = "blocking"]
    /\ body' = [body EXCEPT ![p] = "return"]
    /\ yields' = [yields EXCEPT ![p] = 0]
    /\ UNCHANGED <<nolock, rootExists, lockHolder, calls>>

NextLock ==
    \E p \in Procs :
        \/ \E mode \in Modes, b \in Bodies : LockCall(p, mode, b)
        \/ LockOpenFails(p)
        \/ LockAcquire(p)
        \/ LockFails(p)
        \/ BodyEnds(p)
        \/ LockExit(p)

LockSpec == InitLock /\ [][NextLock]_vars

\* ------------------------------------------------------------------ C14
\* C14: while another process holds the lock, the only step a caller at
\* the acquisition takes is the failure of a non-blocking call, with
\* OSError and without its block having been entered; a blocking caller
\* takes no step, never fails, and whoever is in the block of a lock file
\* that could be opened holds the lock.
C14_NonBlockingFailsBlockingWaits ==
    /\ [](\A p \in Procs :
            /\ (pc[p] = "block" /\ rootExists) => lockHolder = p
            /\ (pc[p] = "left" /\ outcome[p] = "OSError") =>
                  lmode[p] = "nonblocking" /\ yields[p] = 0)
    /\ [][\A p \in Procs :
            (pc[p] = "enter" /\ rootExists /\ lockHolder # NoProc
                /\ pc'[p] # "enter") =>
              /\ lmode[p] = "nonblocking"
              /\ pc'[p] = "left"
              /\ outcome'[p] = "OSError"
              /\ yields'[p] = 0
              /\ lockHolder' = lockHolder]_vars

\* A non-blocking call has failed, its block never entered, while
\* another process is in its block with the lock.
C14_Witness ==
    \E p, q \in Procs :
        /\ p # q
        /\ pc[q] = "block" /\ lockHolder = q
        /\ pc[p] = "left" /\ outcome[p] = "OSError" /\ yields[p] = 0
        /\ lmode[p] = "nonblocking"

\* ------------------------------------------------------------------ C20
\* C20: a caller whose block was entered has been handed control exactly
\* once when the with statement is left, and an error its block raised is
\* the error it gets.
C20_OneHandOverSameError ==
    \A p \in Procs :
        /\ pc[p] = "block" => yields[p] = 1
        /\ (pc[p] = "left" /\ outcome[p] # "OSError") =>
              /\ yields[p] = 1
              /\ outcome[p] = IF body[p] = "return" THEN "returned" ELSE body[p]

\* ------------------------------------------------------------------ C18
\* Source directories that may also hold a python file whose name starts
\* with ".pyre" at their top level.
DotPyreLayouts ==
    { Layout(TRUE, "none", "file", "none"),
      [Layout(TRUE, "none", "none", "file") EXCEPT
          !.files[".pyre_stubs.py"] = "file"] }

InitDotPyre ==
    /\ tree \in [SourceDirs -> DotPyreLayouts]
    /\ rootExists = FALSE
    /\ overlay = [r \in RelPaths |-> NoLink]
    /\ manifest = NoManifest
    /\ isolate = FALSE
    /\ InitProcs

DotPyreSpec == InitDotPyre /\ [][Next]_vars

\* C18: once _clear has returned, no link, file or directory of an
\* earlier build is left under the root.
C18_ClearLeavesReservedOnly ==
    \A p \in Procs :
        pc[p] = "merge" => \A r \in RelPaths : overlay[r] = NoLink

\* ================================================================ cleanup
\* prepare() and cleanup() of objects built with one `isolate` argument.
\* With isolate set the root carries the pid, so it belongs to one
\* process: process 1 is the one followed, the others work elsewhere.

InitCleanup ==
    /\ tree \in [SourceDirs -> { Layout(TRUE, "file", "none", "empty"),
                                 Layout(TRUE, "none", "file", "none") }]
    /\ isolate \in BOOLEAN
    /\ rootExists = FALSE
    /\ overlay = [r \in RelPaths |-> NoLink]
    /\ manifest = NoManifest
    /\ pc = [p \in Procs |-> IF isolate /\ p # 1 THEN "elsewhere" ELSE "idle"]
    /\ InitLocals

\* Mutant: the root is removed whatever `isolate` says.
RemovesRootAlways == isolate \in BOOLEAN

\* `if self._isolate` (line 71).
RemovesRoot == isolate

\* cleanup(): shutil.rmtree(root) under isolation, which takes the links,
\* the manifest and the lock file with the root; the error rmtree raises
\* for a root that is not there is swallowed (lines 69-74).
Cleanup(p) ==
    /\ pc[p] = "idle"
    /\ pc' = [pc EXCEPT ![p] = "cleaned"]
    /\ outcome' = [outcome EXCEPT ![p] = "returned"]
    /\ IF RemovesRoot
       THEN /\ rootExists' = FALSE
            /\ overlay' = [r \in RelPaths |-> NoLink]
            /\ manifest' = NoManifest
       ELSE UNCHANGED <<rootExists, overlay, manifest>>
    /\ UNCHANGED <<ext, tracked, tree, lockHolder, req, todo, remaining,
                   all_paths, idx, calls, interrupted, won, lastDone>>

\* The caller goes on after cleanup().
CleanupReturn(p) ==
    /\ pc[p] = "cleaned"
    /\ pc' = [pc EXCEPT ![p] = "idle"]
    /\ outcome' = [outcome EXCEPT ![p] = "none"]
    /\ UNCHANGED <<ext, tracked, tree, rootExists, overlay, manifest,
                   lockHolder, req, todo, remaining, all_paths, idx, calls,
                   interrupted, won, lastDone>>

NextCleanup ==
    \E p \in Procs :
        \/ Step(p)
        \/ ClearList(p)
        \/ \E e \in todo[p] : ClearEntry(p, e)
        \/ Link(p)
        \/ Release(p)
        \/ Cleanup(p)
        \/ CleanupReturn(p)

CleanupSpec == InitCleanup /\ [][NextCleanup]_vars

\* ------------------------------------------------------------------ C15
\* C15: cleanup() returns without an error; under isolation the root of
\* the process, with everything in it, is gone when it returns; without
\* isolation the call leaves the root, the links, the manifest and the
\* lock as they were.
C15_CleanupScoped ==
    /\ [](\A p \in Procs :
            pc[p] = "cleaned" =>
              /\ outcome[p] = "returned"
              /\ isolate =>
                    /\ ~rootExists
                    /\ manifest.state = "absent"
                    /\ \A r \in RelPaths : overlay[r] = NoLink)
    /\ [][\A p \in Procs :
            (~isolate /\ pc[p] = "idle" /\ pc'[p] = "cleaned") =>
              UNCHANGED <<rootExists, overlay, manifest, lockHolder>>]_vars

\* Under isolation a process has cleaned up right after its prepare()
\* returned from building a non-empty view.
C15_Witness ==
    \E p \in Procs :
        /\ isolate
        /\ pc[p] = "cleaned"
        /\ lastDone.proc = p
        /\ lastDone.dirs # {}
        /\ calls = 1
        /\ ~rootExists

\* ========================================================= using the view
\* Callers that go on to read the overlay after prepare() returned.
InitUse ==
    /\ tree \in [SourceDirs -> { Layout(TRUE, "file", "none", "empty"),
                                 Layout(TRUE, "none", "file", "none") }]
    /\ rootExists = FALSE
    /\ overlay = [r \in RelPaths |-> NoLink]
    /\ manifest = NoManifest
    /\ isolate = FALSE
    /\ InitProcs

\* prepare() returns and the caller starts working on the view it asked
\* for; the lock was released on the way out (lines 54, 65, 203).
Use(p) ==
    /\ pc[p] = "unlock"
    /\ outcome[p] \in {"rebuilt", "uptodate"}
    /\ lockHolder' = LockAfterExit(p)
    /\ tracked' = [tracked EXCEPT ![p] = NoManifest]
    /\ pc' = [pc EXCEPT ![p] = "using"]
    /\ todo' = [todo EXCEPT ![p] = {}]
    /\ remaining' = [remaining EXCEPT ![p] = {}]
    /\ all_paths' = [all_paths EXCEPT ![p] = <<>>]
    /\ idx' = [idx EXCEPT ![p] = 1]
    /\ won' = [won EXCEPT ![p] = NoneWon]
    /\ lastDone' = [proc |-> p, dirs |-> req[p]]
    /\ outcome' = [outcome EXCEPT ![p] = "none"]
    /\ UNCHANGED <<ext, tree, rootExists, overlay, manifest, req, calls,
                   interrupted>>

\* The caller is done with the view.
Finish(p) ==
    /\ pc[p] = "using"
    /\ pc' = [pc EXCEPT ![p] = "idle"]
    /\ req' = [req EXCEPT ![p] = {}]
    /\ lastDone' = Touch(p)
    /\ UNCHANGED <<ext, tracked, tree, rootExists, overlay, manifest,
                   lockHolder, todo, remaining, all_paths, idx, outcome,
                   calls, interrupted, won>>

NextUse ==
    \E p \in Procs :
        \/ Step(p)
        \/ ClearList(p)
        \/ \E e \in todo[p] : ClearEntry(p, e)
        \/ Link(p)
        \/ Release(p)
        \/ Use(p)
        \/ Finish(p)

UseSpec == InitUse /\ [][NextUse]_vars

\* ------------------------------------------------------------------ C16
\* C16: while a process uses the view prepare() returned for its set, no
\* link into a directory of that set is removed or retargeted, whatever
\* the other processes prepare on the same root.
C16_ViewKeptWhileUsed ==
    [][\A p \in Procs :
         (pc[p] = "using" /\ pc'[p] = "using") =>
            \A r \in RelPaths :
                overlay[r].src \in req[p] => overlay'[r] = overlay[r]]_vars

\* ===================================================== failing link calls
\* The link loop in an environment whose calls may fail.
\*   "ok"      the calls the iteration makes succeed
\*   "error"   os.symlink fails with an errno other than EEXIST
\*   "unlink"  the link path exists and os.unlink fails
\*   "relink"  the link path exists, os.unlink succeeds, the second
\*             os.symlink fails
Faults == {"ok", "error", "unlink", "relink"}

\* One iteration of the link loop (lines 91-105). The first os.symlink is
\* inside try/except OSError; os.unlink and the second os.symlink run in
\* the except clause, where nothing catches what they raise.
LinkF(p, f) ==
    LET r == all_paths[p][idx[p]].rel IN
    /\ pc[p] = "link"
    /\ f \in {"unlink", "relink"} => overlay[r] # NoLink
    /\ overlay' = IF f = "ok"
                  THEN [overlay EXCEPT ![r] = all_paths[p][idx[p]].abs]
                  ELSE IF f = "relink" THEN [overlay EXCEPT ![r] = NoLink]
                  ELSE overlay
    /\ IF f \in {"unlink", "relink"}
       THEN /\ pc' = [pc EXCEPT ![p] = "unlock"]
            /\ outcome' = [outcome EXCEPT ![p] = "OSError"]
            /\ UNCHANGED idx
       ELSE /\ pc' = [pc EXCEPT ![p] = AfterLink(p, idx[p])]
            /\ idx' = [idx EXCEPT ![p] = @ + 1]
            /\ UNCHANGED outcome
    /\ lastDone' = Touch(p)
    /\ UNCHANGED <<ext, tracked, tree, rootExists, manifest, lockHolder, req,
                   todo, remaining, all_paths, calls, interrupted, won>>

NextFault ==
    \E p \in Procs :
        \/ Step(p)
        \/ ClearList(p)
        \/ \E e \in todo[p] : ClearEntry(p, e)
        \/ \E f \in Faults : LinkF(p, f)
        \/ Release(p)

FaultSpec == InitDotPyre /\ [][NextFault]_vars

\* ------------------------------------------------------------------ C17
\* C17: no failure of a call of the link loop ends prepare(): a prepare()
\* that reached the link loop goes through all of it and on to the
\* manifest write, so it never ends with the error of such a call.
C17_LinkNeverAborts ==
    \A p \in Procs : pc[p] = "unlock" => outcome[p] # "OSError"

====
